---------------------------- MODULE Spec2Model ----------------------------
(***************************************************************************)
(* CComputeRenderPass (CryEngine RenderDll, GraphicsPipeline/Common):      *)
(* the dirty-mask / compile-on-demand state machine of a compute pass,     *)
(* together with the resource-set description it owns.                      *)
(*                                                                         *)
(* The pass's fields are the variables m_*; every public operation of the  *)
(* pass is one action.  The device layer (resource-set Update, layout and  *)
(* PSO creation) is an external collaborator: its outcomes are inputs      *)
(* drawn with \E.  An operation is a function from the pass before to the  *)
(* pass after; the calls it makes on the device factory, the constant      *)
(* manager and the command list are its output, the field `calls`.         *)
(***************************************************************************)
EXTENDS Integers, Sequences, FiniteSets, TLC

(***************************************************************************)
(* Bounds of the model.                                                    *)
(***************************************************************************)
MaxRtMask == 0          \* rt masks 0..MaxRtMask
MaxResource == 1        \* GPU resources 1..MaxResource
MaxUpdateCount == 1     \* PSO update counters 0..MaxUpdateCount
MaxWorkers == 2         \* worker threads 1..MaxWorkers
MaxSections == 2        \* render-pass brackets each worker runs
MaxLayoutSlot == 2      \* layout slots 0..MaxLayoutSlot

RtMasks == 0..MaxRtMask
Resources == 1..MaxResource
UpdateCounts == 0..MaxUpdateCount
Workers == 1..MaxWorkers

(***************************************************************************)
(* Enumerations.                                                           *)
(***************************************************************************)
eDirty_None == {}
eDirty_Resources == "Resources"
eDirty_Technique == "Technique"
eDirty_ResourceLayout == "ResourceLayout"
eDirty_All == {eDirty_ResourceLayout, eDirty_Resources, eDirty_Technique}

eFlags_None == {}
eFlags_ReflectConstantBuffersFromShader == "ReflectConstantBuffersFromShader"

eResourceDestroyed == "eResourceDestroyed"
eDeviceResourceDirty == "eDeviceResourceDirty"
InvalidateFlags == SUBSET {eResourceDestroyed, eDeviceResourceDirty}

EShaderStage_Compute == "Compute"

NullShader == "nullptr"
Shaders == {"ShaderA"}
TechniqueNames == {"TechA"}
NoTechnique == ""
Views == {"DefaultView"}
Slots == {0}
DispatchSizes == {<<2, 3, 4>>}

VARIABLES
    m_flags,                  \* EPassFlags, a set of flags
    m_dirtyMask,              \* dirty bits, a subset of eDirty_All
    m_bResourcesInvalidated,
    m_pShader,
    m_techniqueName,
    m_rtMask,
    m_dispatchSizeX,
    m_dispatchSizeY,
    m_dispatchSizeZ,
    m_currentPsoUpdateCount,
    m_bPendingConstantUpdate,
    m_bCompiled,
    m_resourceDesc,           \* CDeviceResourceSetDesc: slot -> binding or NoBinding
    m_pResourceSet,           \* shared pointer: nullptr, or Ptr(the resource set object)
    m_pResourceLayout,        \* shared pointer: nullptr, or Ptr(the layout object)
    m_pPipelineState,         \* shared pointer: nullptr, or Ptr(the PSO)
    m_constantManager,        \* [buffers, updating]
    setStale,                 \* the resource set was invalidated after its last successful Update began
    crashed,                  \* the process dereferenced a null resource set and died
    pc,                       \* where the owning thread is: "idle", or inside m_dirtyMask = Compile()
    pendingRet,               \* Compile's return value, not yet stored by the caller
    m_profilingStats,         \* commands counted by the profiling sections merged so far
    workers,                  \* per worker thread: its place in a render-pass bracket
    callbacks,                \* bind points whose resource holds the pass's invalidate callback
    layoutKeys                \* the keys, in order, of a layout description's map of bind points

vars == <<m_flags, m_dirtyMask, m_bResourcesInvalidated, m_pShader, m_techniqueName,
          m_rtMask, m_dispatchSizeX, m_dispatchSizeY, m_dispatchSizeZ,
          m_currentPsoUpdateCount, m_bPendingConstantUpdate, m_bCompiled,
          m_resourceDesc, m_pResourceSet, m_pResourceLayout, m_pPipelineState,
          m_constantManager, setStale, crashed, pc, pendingRet, m_profilingStats,
          workers, callbacks, layoutKeys>>

(***************************************************************************)
(* The pass as one record, so that the body of an operation can be written *)
(* as a function from the pass before to the pass after.  Besides the      *)
(* fields it carries `calls`, the external calls made so far by the        *)
(* operation in progress, and `crashed`.                                   *)
(***************************************************************************)
Self ==
    [m_flags |-> m_flags, m_dirtyMask |-> m_dirtyMask,
     m_bResourcesInvalidated |-> m_bResourcesInvalidated,
     m_pShader |-> m_pShader, m_techniqueName |-> m_techniqueName, m_rtMask |-> m_rtMask,
     m_dispatchSizeX |-> m_dispatchSizeX, m_dispatchSizeY |-> m_dispatchSizeY,
     m_dispatchSizeZ |-> m_dispatchSizeZ,
     m_currentPsoUpdateCount |-> m_currentPsoUpdateCount,
     m_bPendingConstantUpdate |-> m_bPendingConstantUpdate,
     m_bCompiled |-> m_bCompiled,
     m_resourceDesc |-> m_resourceDesc, m_pResourceSet |-> m_pResourceSet,
     m_pResourceLayout |-> m_pResourceLayout, m_pPipelineState |-> m_pPipelineState,
     m_constantManager |-> m_constantManager,
     m_profilingStats |-> m_profilingStats,
     callbacks |-> callbacks,
     setStale |-> setStale, crashed |-> FALSE, calls |-> <<>>]

Commit(p) ==
    /\ m_flags' = p.m_flags
    /\ m_dirtyMask' = p.m_dirtyMask
    /\ m_bResourcesInvalidated' = p.m_bResourcesInvalidated
    /\ m_pShader' = p.m_pShader
    /\ m_techniqueName' = p.m_techniqueName
    /\ m_rtMask' = p.m_rtMask
    /\ m_dispatchSizeX' = p.m_dispatchSizeX
    /\ m_dispatchSizeY' = p.m_dispatchSizeY
    /\ m_dispatchSizeZ' = p.m_dispatchSizeZ
    /\ m_currentPsoUpdateCount' = p.m_currentPsoUpdateCount
    /\ m_bPendingConstantUpdate' = p.m_bPendingConstantUpdate
    /\ m_bCompiled' = p.m_bCompiled
    /\ m_resourceDesc' = p.m_resourceDesc
    /\ m_pResourceSet' = p.m_pResourceSet
    /\ m_pResourceLayout' = p.m_pResourceLayout
    /\ m_pPipelineState' = p.m_pPipelineState
    /\ m_constantManager' = p.m_constantManager
    /\ m_profilingStats' = p.m_profilingStats
    /\ setStale' = p.setStale
    /\ callbacks' = p.callbacks
    /\ crashed' = p.crashed

Call(p, c) == [p EXCEPT !.calls = Append(@, c)]

(***************************************************************************)
(* Shared pointers: nullptr is the empty sequence, a pointer to an object  *)
(* is the one-element sequence holding the object.                         *)
(***************************************************************************)
nullptr == <<>>
Ptr(obj) == <<obj>>
Deref(ptr) == ptr[1]

(***************************************************************************)
(* SResourceBinding and CDeviceResourceSetDesc (DeviceObjects.inl).        *)
(***************************************************************************)
\* SResourceBinding(): type InvalidType, fastCompare 0
NoBinding == [type |-> "InvalidType", resource |-> 0, view |-> "", stages |-> {}]

TextureBinding(pTexture, view, shaderStages) ==
    [type |-> "Texture", resource |-> pTexture, view |-> view, stages |-> shaderStages]

BufferBinding(pBuffer, view, shaderStages) ==
    [type |-> "Buffer", resource |-> pBuffer, view |-> view, stages |-> shaderStages]

SamplerBinding(samplerState, shaderStages) ==
    [type |-> "Sampler", resource |-> samplerState, view |-> "", stages |-> shaderStages]

ConstantBufferBinding(pConstantBuffer, shaderStages) ==
    [type |-> "ConstantBuffer", resource |-> pConstantBuffer, view |-> "", stages |-> shaderStages]

EmptyDesc == [s \in Slots |-> NoBinding]

\* UpdateResource<type>(bindPoint, resource): compares the binding with the one at
\* the bind point, stores it, and returns the dirty-flag delta.
UpdateResource(desc, shaderSlot, binding) ==
    LET old == desc[shaderSlot]
        flags == IF old = binding THEN eDirty_None
                 ELSE IF old.type # binding.type \/ old.stages # binding.stages
                      THEN {eDirty_ResourceLayout}
                      ELSE {eDirty_Resources}
    IN [desc |-> [desc EXCEPT ![shaderSlot] = binding], flags |-> flags]

DescSetConstantBuffer(desc, shaderSlot, pBuffer, shaderStages) ==
    UpdateResource(desc, shaderSlot, ConstantBufferBinding(pBuffer, shaderStages))

\* Faulty variant of SetTexture: the binding is built by the buffer constructor.
DescSetTextureAsBuffer(desc, shaderSlot, pTexture, hView, shaderStages) ==
    UpdateResource(desc, shaderSlot, BufferBinding(pTexture, hView, shaderStages))

DescSetTexture(desc, shaderSlot, pTexture, hView, shaderStages) ==
    UpdateResource(desc, shaderSlot, TextureBinding(pTexture, hView, shaderStages))

\* Faulty variant of SetSampler: the bind point is vacated before the binding is stored.
DescSetSamplerReinserting(desc, shaderSlot, hState, shaderStages) ==
    UpdateResource([desc EXCEPT ![shaderSlot] = NoBinding], shaderSlot,
                   SamplerBinding(hState, shaderStages))

DescSetSampler(desc, shaderSlot, hState, shaderStages) ==
    UpdateResource(desc, shaderSlot, SamplerBinding(hState, shaderStages))

DescSetBuffer(desc, shaderSlot, pBuffer, hView, shaderStages) ==
    UpdateResource(desc, shaderSlot, BufferBinding(pBuffer, hView, shaderStages))

\* A texture or a buffer can be resized or destroyed under the description: the
\* description puts its invalidate callback on the ones it binds.
Invalidatable(binding) == binding.type \in {"Texture", "Buffer"}

\* The callbacks registered once desc has become newDesc: where the binding changed, the
\* callback is taken off the resource that was bound and put on the one that now is.
CallbacksAfter(desc, registered, newDesc) ==
    {s \in Slots : IF newDesc[s] = desc[s] THEN s \in registered
                   ELSE Invalidatable(newDesc[s])}

\* What of a description a resource layout depends on: the bind points, not the resources.
DescShape(desc) == [s \in Slots |-> [type |-> desc[s].type, stages |-> desc[s].stages]]

(***************************************************************************)
(* The constant manager (m_constantManager) and shader reflection.         *)
(***************************************************************************)
\* The reflection provider: the constant buffers a shader/technique/rt-mask declares.
ReflectedBuffers(pShader, techniqueName, rtMask) ==
    IF pShader = NullShader THEN <<>>
    ELSE [i \in 1..(rtMask + 2) |->
            [pBuffer |-> i, shaderSlot |-> i - 1, shaderStages |-> {EShaderStage_Compute}]]

NewConstantManager == [buffers |-> <<>>, updating |-> FALSE]

ReleaseShaderReflection(p) ==
    Call([p EXCEPT !.m_constantManager.buffers = <<>>], <<"ReleaseShaderReflection">>)

AllocateShaderReflection(p) ==
    Call([p EXCEPT !.m_constantManager.buffers =
                       ReflectedBuffers(p.m_pShader, p.m_techniqueName, p.m_rtMask)],
         <<"AllocateShaderReflection">>)

InitShaderReflection(p) == Call(p, <<"InitShaderReflection">>)

BeginNamedConstantUpdate(p) ==
    Call([p EXCEPT !.m_constantManager.updating = TRUE], <<"BeginNamedConstantUpdate">>)

\* Faulty variant of EndNamedConstantUpdate: the write region stays open.
EndNamedConstantUpdateLeavingOpen(p) == Call(p, <<"EndNamedConstantUpdate">>)

EndNamedConstantUpdate(p) ==
    Call([p EXCEPT !.m_constantManager.updating = FALSE], <<"EndNamedConstantUpdate">>)

(***************************************************************************)
(* The device layer.  dev holds what the device answers during one         *)
(* operation: dev.updateOk (CDeviceResourceSet::Update), dev.layoutOk      *)
(* (CreateResourceLayout returns an object), dev.pso (CreateComputePSO     *)
(* returns null, an invalid or a valid PSO), dev.updateCount (the PSO's    *)
(* update counter) and dev.ub (what a call through a null resource-set     *)
(* pointer does: the process dies, or the call returns, with dev.updateOk  *)
(* as its garbage result).                                                 *)
(***************************************************************************)
AllDeviceOutcomes ==
    [updateOk : BOOLEAN, layoutOk : BOOLEAN, pso : {"null", "invalid", "valid"},
     updateCount : UpdateCounts, ub : {"crash", "garbage"}]

\* Compile stops at the first step that fails, so the answers to the steps after a
\* failed one are never asked: one representative of each is enough.
DeviceOutcomes ==
    {dev \in AllDeviceOutcomes :
        /\ dev.ub = "crash" => ~dev.updateOk
        /\ ~dev.updateOk => ~dev.layoutOk
        /\ ~dev.layoutOk => dev.pso = "null"
        /\ dev.pso # "valid" => dev.updateCount = 0}

\* CreateResourceSet(EFlags_ForceSetAllState)
NewResourceSet == Ptr([flags |-> "EFlags_ForceSetAllState"])

\* Faulty variant of CompileResourceSet: the result of Update is not tested.
CompileResourceSetUnchecked(p, dirtyMask, dev) ==
    LET q == Call(p, <<"Update">>)
    IN IF p.m_pResourceSet = nullptr /\ dev.ub = "crash"
       THEN [p |-> [q EXCEPT !.crashed = TRUE], ok |-> FALSE]
       ELSE [p |-> IF dev.updateOk /\ p.m_pResourceSet # nullptr
                   THEN [q EXCEPT !.setStale = FALSE] ELSE q,
             ok |-> TRUE]

\* m_pResourceSet->Update(m_resourceDesc, flags), Compile's first step.
\* ok: the step did not fail.
CompileResourceSet(p, dirtyMask, dev) ==
    LET flags == dirtyMask \cap {eDirty_Resources, eDirty_ResourceLayout}
        q == Call(p, <<"Update">>)
    IN IF p.m_pResourceSet = nullptr
       THEN \* undefined behaviour: a member call through a null pointer
            IF dev.ub = "crash"
            THEN [p |-> [q EXCEPT !.crashed = TRUE], ok |-> FALSE]
            ELSE [p |-> q, ok |-> dev.updateOk]
       ELSE IF dev.updateOk
            THEN [p |-> [q EXCEPT !.setStale = FALSE], ok |-> TRUE]
            ELSE [p |-> q, ok |-> FALSE]

\* The resource layout description Compile builds: the resource set at bind slot 0,
\* then one slot per inline constant buffer.
\* Faulty variant of the layout description: it keeps the bindings, not their shape.
ResourceLayoutDescOfBindings(p) ==
    LET buffers == p.m_constantManager.buffers
    IN [resourceSet |-> [bindSlot |-> 0, shape |-> p.m_resourceDesc],
        constantBuffers |->
            [i \in 1..Len(buffers) |->
                [bindSlot |-> i, shaderSlot |-> buffers[i].shaderSlot,
                 shaderStages |-> buffers[i].shaderStages]]]

ResourceLayoutDesc(p) ==
    LET buffers == p.m_constantManager.buffers
    IN [resourceSet |-> [bindSlot |-> 0, shape |-> DescShape(p.m_resourceDesc)],
        constantBuffers |->
            [i \in 1..Len(buffers) |->
                [bindSlot |-> i, shaderSlot |-> buffers[i].shaderSlot,
                 shaderStages |-> buffers[i].shaderStages]]]

\* Faulty variant of CompileResourceLayout: the layout is not tested for null.
CompileResourceLayoutUnchecked(p, dev) ==
    LET p1 == ReleaseShaderReflection(p)
        p2 == IF eFlags_ReflectConstantBuffersFromShader \in p.m_flags
              THEN AllocateShaderReflection(p1) ELSE p1
        p3 == Call(p2, <<"CreateResourceLayout">>)
        layout == IF dev.layoutOk THEN Ptr(ResourceLayoutDesc(p2)) ELSE nullptr
    IN [p |-> [p3 EXCEPT !.m_pResourceLayout = layout], ok |-> TRUE]

\* Compile's second step: shader reflection and the resource layout.
CompileResourceLayout(p, dev) ==
    LET p1 == ReleaseShaderReflection(p)
        p2 == IF eFlags_ReflectConstantBuffersFromShader \in p.m_flags
              THEN AllocateShaderReflection(p1) ELSE p1
        resourceLayoutDesc == ResourceLayoutDesc(p2)
        p3 == Call(p2, <<"CreateResourceLayout">>)
        layout == IF dev.layoutOk THEN Ptr(resourceLayoutDesc) ELSE nullptr
    IN [p |-> [p3 EXCEPT !.m_pResourceLayout = layout], ok |-> layout # nullptr]

\* Faulty variant of CompilePipelineState: the test of IsValid() is inverted.
CompilePipelineStateRejectingValid(p, dev) ==
    LET psoDesc == [layout |-> p.m_pResourceLayout, shader |-> p.m_pShader,
                    technique |-> p.m_techniqueName, rtMask |-> p.m_rtMask]
        p1 == Call(p, <<"CreateComputePSO">>)
        pso == IF dev.pso = "null" THEN nullptr
               ELSE Ptr([desc |-> psoDesc, valid |-> (dev.pso = "valid")])
        p2 == [p1 EXCEPT !.m_pPipelineState = pso]
    IN IF pso = nullptr \/ Deref(pso).valid
       THEN [p |-> p2, ok |-> FALSE]
       ELSE [p |-> [p2 EXCEPT !.m_currentPsoUpdateCount = dev.updateCount], ok |-> TRUE]

\* Compile's third step: the pipeline state.
CompilePipelineState(p, dev) ==
    LET psoDesc == [layout |-> p.m_pResourceLayout, shader |-> p.m_pShader,
                    technique |-> p.m_techniqueName, rtMask |-> p.m_rtMask]
        p1 == Call(p, <<"CreateComputePSO">>)
        pso == IF dev.pso = "null" THEN nullptr
               ELSE Ptr([desc |-> psoDesc, valid |-> (dev.pso = "valid")])
        p2 == [p1 EXCEPT !.m_pPipelineState = pso]
    IN IF pso = nullptr \/ ~Deref(pso).valid
       THEN [p |-> p2, ok |-> FALSE]
       ELSE LET p3 == [p2 EXCEPT !.m_currentPsoUpdateCount = dev.updateCount]
            IN [p |-> IF eFlags_ReflectConstantBuffersFromShader \in p.m_flags
                      THEN InitShaderReflection(p3) ELSE p3,
                ok |-> TRUE]

\* Faulty variant of Compile: the pipeline state is rebuilt whatever bit is dirty.
CompileRebuildingPipelineState(p, dev) ==
    LET dirtyMask == p.m_dirtyMask \cup
                       (IF p.m_bResourcesInvalidated THEN {eDirty_Resources} ELSE eDirty_None)
        p0 == [p EXCEPT !.m_bResourcesInvalidated = FALSE, !.m_bCompiled = FALSE]
        r1 == IF eDirty_Resources \in dirtyMask
              THEN CompileResourceSet(p0, dirtyMask, dev)
              ELSE [p |-> p0, ok |-> TRUE]
        r2 == IF dirtyMask \cap {eDirty_Technique, eDirty_ResourceLayout} # {}
              THEN CompileResourceLayout(r1.p, dev)
              ELSE [p |-> r1.p, ok |-> TRUE]
        r3 == IF dirtyMask # eDirty_None
              THEN CompilePipelineState(r2.p, dev)
              ELSE [p |-> r2.p, ok |-> TRUE]
    IN IF ~r1.ok THEN [p |-> r1.p, ret |-> dirtyMask]
       ELSE IF ~r2.ok THEN [p |-> r2.p, ret |-> dirtyMask]
       ELSE IF ~r3.ok THEN [p |-> r3.p, ret |-> dirtyMask]
       ELSE [p |-> [r3.p EXCEPT !.m_bCompiled = TRUE], ret |-> eDirty_None]

\* Faulty variant of Compile: m_bCompiled is not cleared on entry.
CompileKeepingCompiled(p, dev) ==
    LET dirtyMask == p.m_dirtyMask \cup
                       (IF p.m_bResourcesInvalidated THEN {eDirty_Resources} ELSE eDirty_None)
        p0 == [p EXCEPT !.m_bResourcesInvalidated = FALSE]
        r1 == IF eDirty_Resources \in dirtyMask
              THEN CompileResourceSet(p0, dirtyMask, dev)
              ELSE [p |-> p0, ok |-> TRUE]
        r2 == IF dirtyMask \cap {eDirty_Technique, eDirty_ResourceLayout} # {}
              THEN CompileResourceLayout(r1.p, dev)
              ELSE [p |-> r1.p, ok |-> TRUE]
        r3 == IF dirtyMask \cap {eDirty_Technique, eDirty_ResourceLayout} # {}
              THEN CompilePipelineState(r2.p, dev)
              ELSE [p |-> r2.p, ok |-> TRUE]
    IN IF ~r1.ok THEN [p |-> r1.p, ret |-> dirtyMask]
       ELSE IF ~r2.ok THEN [p |-> r2.p, ret |-> dirtyMask]
       ELSE IF ~r3.ok THEN [p |-> r3.p, ret |-> dirtyMask]
       ELSE [p |-> [r3.p EXCEPT !.m_bCompiled = TRUE], ret |-> eDirty_None]

\* uint CComputeRenderPass::Compile(): the pass after the call and the value
\* returned.  Compile never assigns m_dirtyMask: its callers store the result.
Compile(p, dev) ==
    LET dirtyMask == p.m_dirtyMask \cup
                       (IF p.m_bResourcesInvalidated THEN {eDirty_Resources} ELSE eDirty_None)
        p0 == [p EXCEPT !.m_bResourcesInvalidated = FALSE, !.m_bCompiled = FALSE]
        r1 == IF eDirty_Resources \in dirtyMask
              THEN CompileResourceSet(p0, dirtyMask, dev)
              ELSE [p |-> p0, ok |-> TRUE]
        r2 == IF dirtyMask \cap {eDirty_Technique, eDirty_ResourceLayout} # {}
              THEN CompileResourceLayout(r1.p, dev)
              ELSE [p |-> r1.p, ok |-> TRUE]
        r3 == IF dirtyMask \cap {eDirty_Technique, eDirty_ResourceLayout} # {}
              THEN CompilePipelineState(r2.p, dev)
              ELSE [p |-> r2.p, ok |-> TRUE]
    IN IF ~r1.ok THEN [p |-> r1.p, ret |-> dirtyMask]
       ELSE IF ~r2.ok THEN [p |-> r2.p, ret |-> dirtyMask]
       ELSE IF ~r3.ok THEN [p |-> r3.p, ret |-> dirtyMask]
       ELSE [p |-> [r3.p EXCEPT !.m_bCompiled = TRUE], ret |-> eDirty_None]

IsDirty(p) == p.m_dirtyMask # eDirty_None


(***************************************************************************)
(* The operations of the pass, as functions of the pass.                   *)
(***************************************************************************)
\* The constructor: dirty mask All, dispatch size (1,1,1), a fresh resource set.
NewPass(flags) ==
    [m_flags |-> flags, m_dirtyMask |-> eDirty_All,
     m_bResourcesInvalidated |-> FALSE,
     m_pShader |-> NullShader, m_techniqueName |-> NoTechnique, m_rtMask |-> 0,
     m_dispatchSizeX |-> 1, m_dispatchSizeY |-> 1, m_dispatchSizeZ |-> 1,
     m_currentPsoUpdateCount |-> 0,
     m_bPendingConstantUpdate |-> FALSE,
     m_bCompiled |-> FALSE,
     m_resourceDesc |-> EmptyDesc, m_pResourceSet |-> NewResourceSet,
     m_pResourceLayout |-> nullptr, m_pPipelineState |-> nullptr,
     m_constantManager |-> NewConstantManager,
     m_profilingStats |-> 0,
     callbacks |-> {},
     setStale |-> FALSE, crashed |-> FALSE, calls |-> <<>>]

\* Faulty variant of OnResourceInvalidated: every bit is set, and the flags are read inverted.
OnResourceInvalidatedAll(p, flags) ==
    [p |-> [p EXCEPT !.m_dirtyMask = eDirty_All,
                     !.setStale = (p.m_pResourceSet # nullptr)],
     ret |-> eResourceDestroyed \in flags]

\* bool OnResourceInvalidated(void* pThis, uint32 flags): the pass after, the value returned.
OnResourceInvalidated(p, flags) ==
    [p |-> [p EXCEPT !.m_dirtyMask = @ \cup {eDirty_Resources},
                     !.setStale = (p.m_pResourceSet # nullptr)],
     ret |-> ~(eResourceDestroyed \in flags)]

\* Faulty variant of StoreCompile: the result is ORed into the mask, not assigned.
StoreCompileOred(p, ret) == [p EXCEPT !.m_dirtyMask = @ \cup ret]

\* The assignment m_dirtyMask = Compile() of BeginConstantUpdate and PrepareResourcesForUse.
\* Faulty variant of the store: the mask is cleared whatever Compile returned.
StoreCompileAsSuccess(p, ret) == [p EXCEPT !.m_dirtyMask = eDirty_None]

StoreCompile(p, ret) == [p EXCEPT !.m_dirtyMask = ret]

\* BeginConstantUpdate after its compile.
BeginConstantUpdateTail(p) ==
    BeginNamedConstantUpdate([p EXCEPT !.m_bPendingConstantUpdate = TRUE])

\* Faulty variant of BeginConstantUpdate: the compile is driven before the flag is tested.
BeginConstantUpdateCompilingFirst(p, dev) ==
    LET c == IF IsDirty(p) THEN Compile(p, dev) ELSE [p |-> p, ret |-> p.m_dirtyMask]
        q == IF c.p.crashed THEN c.p ELSE StoreCompile(c.p, c.ret)
    IN IF eFlags_ReflectConstantBuffersFromShader \in p.m_flags /\ ~q.crashed
       THEN [p |-> BeginConstantUpdateTail(q), ret |-> <<c.ret>>]
       ELSE [p |-> q, ret |-> <<c.ret>>]

\* void BeginConstantUpdate(): the pass after, and <<r>> when Compile ran and returned r.
BeginConstantUpdate(p, dev) ==
    IF eFlags_ReflectConstantBuffersFromShader \in p.m_flags
    THEN IF IsDirty(p)
         THEN LET c == Compile(p, dev)
              IN IF c.p.crashed THEN [p |-> c.p, ret |-> <<c.ret>>]
                 ELSE [p |-> BeginConstantUpdateTail(StoreCompile(c.p, c.ret)),
                       ret |-> <<c.ret>>]
         ELSE [p |-> BeginConstantUpdateTail(p), ret |-> <<>>]
    ELSE [p |-> p, ret |-> <<>>]

\* PrepareResourcesForUse from `if (m_dirtyMask == eDirty_None)` on: the prepare calls.
PrepareResourcesForUseTail(p) ==
    IF p.m_dirtyMask = eDirty_None
    THEN LET buffers == p.m_constantManager.buffers
             prepares == [i \in 1..Len(buffers) |->
                             <<"PrepareInlineConstantBufferForUse", i, buffers[i].pBuffer,
                               buffers[i].shaderSlot, EShaderStage_Compute>>]
         IN [p EXCEPT !.calls = @ \o <<<<"PrepareResourcesForUse", 0>>>>
                                  \o prepares]
    ELSE p

\* Faulty variant of PrepareResourcesForUse: `if` for `else if`, so that a dirty pass is
\* compiled after a pending constant update was ended.
PrepareResourcesForUseCompilingAfterUpdate(p, dev) ==
    LET p1 == IF p.m_bPendingConstantUpdate
              THEN [EndNamedConstantUpdate(p) EXCEPT !.m_bPendingConstantUpdate = FALSE]
              ELSE p
    IN IF IsDirty(p1)
       THEN LET c == Compile(p1, dev)
            IN IF c.p.crashed THEN [p |-> c.p, ret |-> <<c.ret>>]
               ELSE [p |-> PrepareResourcesForUseTail(StoreCompile(c.p, c.ret)),
                     ret |-> <<c.ret>>]
       ELSE [p |-> PrepareResourcesForUseTail(p1), ret |-> <<>>]

\* void PrepareResourcesForUse(commandList)
PrepareResourcesForUse(p, dev) ==
    IF p.m_bPendingConstantUpdate
    THEN [p |-> PrepareResourcesForUseTail(
                    [EndNamedConstantUpdate(p) EXCEPT !.m_bPendingConstantUpdate = FALSE]),
          ret |-> <<>>]
    ELSE IF IsDirty(p)
         THEN LET c == Compile(p, dev)
              IN IF c.p.crashed THEN [p |-> c.p, ret |-> <<c.ret>>]
                 ELSE [p |-> PrepareResourcesForUseTail(StoreCompile(c.p, c.ret)),
                       ret |-> <<c.ret>>]
         ELSE [p |-> PrepareResourcesForUseTail(p), ret |-> <<>>]

\* Faulty variant of DispatchCommands: an inline constant buffer is bound at its shader slot.
DispatchCommandsAtShaderSlot(p) ==
    LET buffers == p.m_constantManager.buffers
        inline == [i \in 1..Len(buffers) |->
                      <<"SetInlineConstantBuffer", buffers[i].shaderSlot, buffers[i].pBuffer,
                        buffers[i].shaderSlot>>]
    IN [p EXCEPT !.calls = @ \o <<<<"SetResourceLayout">>, <<"SetPipelineState">>,
                                  <<"SetResources", 0>>>>
                             \o inline
                             \o <<<<"Dispatch", p.m_dispatchSizeX, p.m_dispatchSizeY,
                                    p.m_dispatchSizeZ>>>>]

\* The commands of Dispatch: layout, pipeline state, resources, inline constant buffers,
\* and the dispatch itself.
DispatchCommands(p) ==
    LET buffers == p.m_constantManager.buffers
        inline == [i \in 1..Len(buffers) |->
                      <<"SetInlineConstantBuffer", i, buffers[i].pBuffer,
                        buffers[i].shaderSlot>>]
    IN [p EXCEPT !.calls = @ \o <<<<"SetResourceLayout">>, <<"SetPipelineState">>,
                                  <<"SetResources", 0>>>>
                             \o inline
                             \o <<<<"Dispatch", p.m_dispatchSizeX, p.m_dispatchSizeY,
                                    p.m_dispatchSizeZ>>>>]

\* Faulty variant of Dispatch: it tests the Resources bit alone.
DispatchUnlessResourcesDirty(p) ==
    IF eDirty_Resources \notin p.m_dirtyMask THEN DispatchCommands(p) ELSE p

\* void Dispatch(commandList, srvUsage)
Dispatch(p) ==
    IF p.m_dirtyMask = eDirty_None THEN DispatchCommands(p) ELSE p

BeginRenderPass(p) == Call(p, <<"BeginRenderPass">>)

EndRenderPass(p) == Call(p, <<"EndRenderPass">>)

\* Faulty variant of Execute: no return after the pass is handed to the scheduler.
ExecuteWithoutReturn(p, schedulerActive) ==
    LET q == IF schedulerActive THEN Call(p, <<"AddPass">>) ELSE p
    IN EndRenderPass(Dispatch(BeginRenderPass(q)))

\* void Execute(commandList, srvUsage); schedulerActive is GetRenderPassScheduler().IsActive()
Execute(p, schedulerActive) ==
    IF schedulerActive
    THEN Call(p, <<"AddPass">>)
    ELSE EndRenderPass(Dispatch(BeginRenderPass(p)))

\* Faulty variant of Reset: the pipeline state and the snapshot of its update count are kept.
ResetKeepingPipelineState(p) ==
    [p EXCEPT !.m_flags = eFlags_None,
              !.m_dirtyMask = eDirty_All,
              !.m_bResourcesInvalidated = TRUE,
              !.m_bPendingConstantUpdate = TRUE,
              !.m_bCompiled = FALSE,
              !.m_pShader = NullShader,
              !.m_techniqueName = NoTechnique,
              !.m_rtMask = 0,
              !.m_dispatchSizeX = 0,
              !.m_dispatchSizeY = 0,
              !.m_dispatchSizeZ = 0,
              !.m_resourceDesc = EmptyDesc,
              !.callbacks = {},
              !.m_pResourceSet = nullptr,
              !.m_pResourceLayout = nullptr,
              !.m_constantManager = NewConstantManager,
              !.m_profilingStats = 0,
              !.setStale = FALSE]

\* Faulty variant of Reset: m_resourceDesc.Clear() is left out.
ResetWithoutClear(p) ==
    [p EXCEPT !.m_flags = eFlags_None,
              !.m_dirtyMask = eDirty_All,
              !.m_bResourcesInvalidated = TRUE,
              !.m_bPendingConstantUpdate = TRUE,
              !.m_bCompiled = FALSE,
              !.m_pShader = NullShader,
              !.m_techniqueName = NoTechnique,
              !.m_rtMask = 0,
              !.m_dispatchSizeX = 0,
              !.m_dispatchSizeY = 0,
              !.m_dispatchSizeZ = 0,
              !.m_pResourceSet = nullptr,
              !.m_pResourceLayout = nullptr,
              !.m_pPipelineState = nullptr,
              !.m_currentPsoUpdateCount = 0,
              !.m_constantManager = NewConstantManager,
              !.m_profilingStats = 0,
              !.setStale = FALSE]

\* void Reset()
Reset(p) ==
    [p EXCEPT !.m_flags = eFlags_None,
              !.m_dirtyMask = eDirty_All,
              !.m_bResourcesInvalidated = TRUE,
              !.m_bPendingConstantUpdate = TRUE,
              !.m_bCompiled = FALSE,
              !.m_pShader = NullShader,
              !.m_techniqueName = NoTechnique,
              !.m_rtMask = 0,
              !.m_dispatchSizeX = 0,
              !.m_dispatchSizeY = 0,
              !.m_dispatchSizeZ = 0,
              !.m_resourceDesc = EmptyDesc,
              !.callbacks = {},
              !.m_pResourceSet = nullptr,
              !.m_pResourceLayout = nullptr,
              !.m_pPipelineState = nullptr,
              !.m_currentPsoUpdateCount = 0,
              !.m_constantManager = NewConstantManager,
              !.m_profilingStats = 0,
              !.setStale = FALSE]

(***************************************************************************)
(* The mutators the pass's header declares (the header is not among the    *)
(* sources): each ORs the delta of its change into the dirty mask.         *)
(***************************************************************************)
SetTechnique(p, pShader, techName, rtMask) ==
    LET flags == IF p.m_pShader # pShader \/ p.m_techniqueName # techName \/ p.m_rtMask # rtMask
                 THEN {eDirty_Technique} ELSE eDirty_None
    IN [p |-> [p EXCEPT !.m_pShader = pShader, !.m_techniqueName = techName,
                        !.m_rtMask = rtMask, !.m_dirtyMask = @ \cup flags],
        flags |-> flags]

SetDispatchSize(p, sizeX, sizeY, sizeZ) ==
    [p EXCEPT !.m_dispatchSizeX = sizeX, !.m_dispatchSizeY = sizeY, !.m_dispatchSizeZ = sizeZ]

\* m_dirtyMask |= m_resourceDesc.Set*(...), r being what the description's Set* returned
SetResource(p, r) ==
    [p |-> [p EXCEPT !.m_resourceDesc = r.desc, !.m_dirtyMask = @ \cup r.flags,
                     !.callbacks = CallbacksAfter(p.m_resourceDesc, @, r.desc)],
     flags |-> r.flags]

SetTexture(p, slot, pTexture, hView, shaderStages) ==
    SetResource(p, DescSetTexture(p.m_resourceDesc, slot, pTexture, hView, shaderStages))

SetBuffer(p, slot, pBuffer, hView, shaderStages) ==
    SetResource(p, DescSetBuffer(p.m_resourceDesc, slot, pBuffer, hView, shaderStages))

SetSampler(p, slot, hState, shaderStages) ==
    SetResource(p, DescSetSampler(p.m_resourceDesc, slot, hState, shaderStages))

SetConstantBuffer(p, slot, pBuffer, shaderStages) ==
    SetResource(p, DescSetConstantBuffer(p.m_resourceDesc, slot, pBuffer, shaderStages))

(***************************************************************************)
(* The state machine.                                                      *)
(***************************************************************************)
\* The variables hold pass p.
Holds(p) ==
    /\ m_flags = p.m_flags
    /\ m_dirtyMask = p.m_dirtyMask
    /\ m_bResourcesInvalidated = p.m_bResourcesInvalidated
    /\ m_pShader = p.m_pShader
    /\ m_techniqueName = p.m_techniqueName
    /\ m_rtMask = p.m_rtMask
    /\ m_dispatchSizeX = p.m_dispatchSizeX
    /\ m_dispatchSizeY = p.m_dispatchSizeY
    /\ m_dispatchSizeZ = p.m_dispatchSizeZ
    /\ m_currentPsoUpdateCount = p.m_currentPsoUpdateCount
    /\ m_bPendingConstantUpdate = p.m_bPendingConstantUpdate
    /\ m_bCompiled = p.m_bCompiled
    /\ m_resourceDesc = p.m_resourceDesc
    /\ m_pResourceSet = p.m_pResourceSet
    /\ m_pResourceLayout = p.m_pResourceLayout
    /\ m_pPipelineState = p.m_pPipelineState
    /\ m_constantManager = p.m_constantManager
    /\ m_profilingStats = p.m_profilingStats
    /\ setStale = p.setStale
    /\ callbacks = p.callbacks
    /\ crashed = p.crashed

\* A worker thread that has not begun a render pass: it will run MaxSections brackets.
NewWorker == [pos |-> "out", todo |-> MaxSections, section |-> 0, seen |-> 0]

Init ==
    \E flags \in {eFlags_None, {eFlags_ReflectConstantBuffersFromShader}} :
        /\ Holds(NewPass(flags))
        /\ pc = "idle"
        /\ pendingRet = eDirty_None
        /\ workers = [t \in Workers |-> NewWorker]
        /\ layoutKeys = <<>>

Idle == pc = "idle" /\ ~crashed

Sequential == UNCHANGED <<pc, pendingRet, workers, layoutKeys>>

CallSetTechnique ==
    /\ Idle
    /\ \E pShader \in Shaders, techName \in TechniqueNames, rtMask \in RtMasks :
          Commit(SetTechnique(Self, pShader, techName, rtMask).p)
    /\ Sequential

CallSetDispatchSize ==
    /\ Idle
    /\ \E size \in DispatchSizes : Commit(SetDispatchSize(Self, size[1], size[2], size[3]))
    /\ Sequential

CallSetTexture ==
    /\ Idle
    /\ \E slot \in Slots, pTexture \in Resources, hView \in Views :
          Commit(SetTexture(Self, slot, pTexture, hView, {EShaderStage_Compute}).p)
    /\ Sequential

CallSetBuffer ==
    /\ Idle
    /\ \E slot \in Slots, pBuffer \in Resources, hView \in Views :
          Commit(SetBuffer(Self, slot, pBuffer, hView, {EShaderStage_Compute}).p)
    /\ Sequential

\* Compile() called on its own: the value it returns is not stored in m_dirtyMask.
CallCompile ==
    /\ Idle
    /\ \E dev \in DeviceOutcomes : Commit(Compile(Self, dev).p)
    /\ Sequential

CallBeginConstantUpdate ==
    /\ Idle
    /\ \E dev \in DeviceOutcomes : Commit(BeginConstantUpdate(Self, dev).p)
    /\ Sequential

CallPrepareResourcesForUse ==
    /\ Idle
    /\ \E dev \in DeviceOutcomes : Commit(PrepareResourcesForUse(Self, dev).p)
    /\ Sequential

CallDispatch ==
    /\ Idle
    /\ Commit(Dispatch(Self))
    /\ Sequential

CallExecute ==
    /\ Idle
    /\ \E schedulerActive \in BOOLEAN : Commit(Execute(Self, schedulerActive))
    /\ Sequential

CallReset ==
    /\ Idle
    /\ Commit(Reset(Self))
    /\ Sequential

\* The invalidate callback, run by whichever thread resizes or destroys a bound
\* resource: between two operations of the owning thread, or in the middle of one.
CallOnResourceInvalidated ==
    /\ ~crashed
    /\ \E flags \in InvalidateFlags : Commit(OnResourceInvalidated(Self, flags).p)
    /\ UNCHANGED <<pc, pendingRet, workers, layoutKeys>>

Next ==
    \/ CallSetTechnique
    \/ CallSetDispatchSize
    \/ CallSetTexture
    \/ CallSetBuffer
    \/ CallCompile
    \/ CallBeginConstantUpdate
    \/ CallPrepareResourcesForUse
    \/ CallDispatch
    \/ CallExecute
    \/ CallReset
    \/ CallOnResourceInvalidated

Spec == Init /\ [][Next]_vars

(***************************************************************************)
(* The same machine with the statement m_dirtyMask = Compile() of          *)
(* BeginConstantUpdate and PrepareResourcesForUse in its two steps: the    *)
(* call, which reads m_dirtyMask on entry, and the store of what it        *)
(* returned.  The invalidate callback runs on another thread and may fall  *)
(* between the two.  The callback touches m_dirtyMask only, and Compile    *)
(* reads it only on entry, so no finer interleaving shows more.            *)
(***************************************************************************)
BeginConstantUpdateCompile ==
    /\ Idle
    /\ UNCHANGED <<workers, layoutKeys>>
    /\ eFlags_ReflectConstantBuffersFromShader \in m_flags
    /\ IsDirty(Self)
    /\ \E dev \in DeviceOutcomes :
          LET c == Compile(Self, dev)
          IN /\ Commit(c.p)
             /\ pc' = IF c.p.crashed THEN "idle" ELSE "BeginConstantUpdate"
             /\ pendingRet' = IF c.p.crashed THEN eDirty_None ELSE c.ret

BeginConstantUpdateStore ==
    /\ pc = "BeginConstantUpdate"
    /\ UNCHANGED <<workers, layoutKeys>>
    /\ ~crashed
    /\ Commit(BeginConstantUpdateTail(StoreCompile(Self, pendingRet)))
    /\ pc' = "idle"
    /\ pendingRet' = eDirty_None

PrepareResourcesForUseCompile ==
    /\ Idle
    /\ UNCHANGED <<workers, layoutKeys>>
    /\ ~m_bPendingConstantUpdate
    /\ IsDirty(Self)
    /\ \E dev \in DeviceOutcomes :
          LET c == Compile(Self, dev)
          IN /\ Commit(c.p)
             /\ pc' = IF c.p.crashed THEN "idle" ELSE "PrepareResourcesForUse"
             /\ pendingRet' = IF c.p.crashed THEN eDirty_None ELSE c.ret

PrepareResourcesForUseStore ==
    /\ pc = "PrepareResourcesForUse"
    /\ UNCHANGED <<workers, layoutKeys>>
    /\ ~crashed
    /\ Commit(PrepareResourcesForUseTail(StoreCompile(Self, pendingRet)))
    /\ pc' = "idle"
    /\ pendingRet' = eDirty_None

NextMT ==
    \/ Next
    \/ BeginConstantUpdateCompile
    \/ BeginConstantUpdateStore
    \/ PrepareResourcesForUseCompile
    \/ PrepareResourcesForUseStore

SpecMT == Init /\ [][NextMT]_vars

(***************************************************************************)
(* The resource-set description under its four setters.  The pass binds    *)
(* textures, buffers, samplers and constant buffers, drawn from one more   *)
(* resource than the other operations use so that a binding can be         *)
(* replaced by another of its type; PrepareResourcesForUse and Reset clear *)
(* and refill the dirty mask in between.                                   *)
(***************************************************************************)
DescResources == 1..(MaxResource + 1)

BindTexture ==
    /\ Idle
    /\ \E slot \in Slots, pTexture \in DescResources, hView \in Views :
          Commit(SetTexture(Self, slot, pTexture, hView, {EShaderStage_Compute}).p)
    /\ Sequential

BindBuffer ==
    /\ Idle
    /\ \E slot \in Slots, pBuffer \in DescResources, hView \in Views :
          Commit(SetBuffer(Self, slot, pBuffer, hView, {EShaderStage_Compute}).p)
    /\ Sequential

BindSampler ==
    /\ Idle
    /\ \E slot \in Slots, hState \in DescResources :
          Commit(SetSampler(Self, slot, hState, {EShaderStage_Compute}).p)
    /\ Sequential

BindConstantBuffer ==
    /\ Idle
    /\ \E slot \in Slots, pBuffer \in DescResources :
          Commit(SetConstantBuffer(Self, slot, pBuffer, {EShaderStage_Compute}).p)
    /\ Sequential

NextDesc ==
    \/ BindTexture
    \/ BindBuffer
    \/ BindSampler
    \/ BindConstantBuffer
    \/ CallSetTechnique
    \/ CallPrepareResourcesForUse
    \/ CallReset

SpecDesc == Init /\ [][NextDesc]_vars

(***************************************************************************)
(* Worker threads recording the pass, in the build with profiling enabled. *)
(* Once the pass is prepared, each worker runs its brackets on a command   *)
(* list of its own: BeginRenderPass (BeginProfilingSection), Dispatch,     *)
(* EndRenderPass (m_profilingStats.Merge(EndProfilingSection())).  The     *)
(* section's statistics are the thread's; m_profilingStats is the one      *)
(* field of the pass the bracket writes.  Merge is a synchronized          *)
(* read-modify-write: it reads the counter and publishes the sum with an   *)
(* interlocked compare-exchange, which it repeats from the value the       *)
(* exchange observed when another thread came first.                       *)
(***************************************************************************)
\* The faulty variant of the exchange: a plain store of the sum.
MergeStore(stats, seen, section) ==
    [stats |-> seen + section, seen |-> stats, merged |-> TRUE]

\* One interlocked compare-exchange of Merge: the counter after, the value observed,
\* and whether the sum was published.
MergeExchange(stats, seen, section) ==
    [stats |-> IF stats = seen THEN seen + section ELSE stats,
     seen |-> stats,
     merged |-> stats = seen]

NoWorkerStarted == \A t \in Workers : workers[t] = NewWorker

OwnerIdle == UNCHANGED <<pc, pendingRet, layoutKeys>>

\* BeginRenderPass on worker t: commandList.BeginProfilingSection()
WorkerBeginRenderPass(t) ==
    /\ Idle
    /\ workers[t].pos = "out"
    /\ workers[t].todo > 0
    /\ Commit(BeginRenderPass(Self))
    /\ workers' = [workers EXCEPT ![t].pos = "in", ![t].section = 0]
    /\ OwnerIdle

\* Dispatch on worker t: the commands go to the worker's command list and are counted
\* by its profiling section.
WorkerDispatch(t) ==
    /\ Idle
    /\ workers[t].pos = "in"
    /\ Commit(Dispatch(Self))
    /\ workers' = [workers EXCEPT ![t].pos = "dispatched",
                                  ![t].section =
                                      Len(SelectSeq(Dispatch(Self).calls,
                                                    LAMBDA c : c[1] = "Dispatch"))]
    /\ OwnerIdle

\* EndRenderPass on worker t: EndProfilingSection() returns the section's statistics
\* and Merge reads the pass's counter.
WorkerEndRenderPass(t) ==
    /\ Idle
    /\ workers[t].pos = "dispatched"
    /\ Commit(EndRenderPass(Self))
    /\ workers' = [workers EXCEPT ![t].pos = "merge", ![t].seen = m_profilingStats]
    /\ OwnerIdle

\* Merge on worker t publishes the sum, or finds that another thread came first.
WorkerMerge(t) ==
    /\ Idle
    /\ workers[t].pos = "merge"
    /\ LET r == MergeExchange(m_profilingStats, workers[t].seen, workers[t].section)
       IN /\ Commit([Self EXCEPT !.m_profilingStats = r.stats])
          /\ workers' = IF r.merged
                        THEN [workers EXCEPT ![t].pos = "out", ![t].todo = @ - 1,
                                             ![t].section = 0, ![t].seen = 0]
                        ELSE [workers EXCEPT ![t].seen = r.seen]
    /\ OwnerIdle

\* The owning thread configures and prepares the pass before the workers start.
ConfigureBeforeWorkers == NoWorkerStarted /\ CallSetTechnique

PrepareBeforeWorkers == NoWorkerStarted /\ CallPrepareResourcesForUse

NextWorkers ==
    \/ ConfigureBeforeWorkers
    \/ PrepareBeforeWorkers
    \/ \E t \in Workers : WorkerBeginRenderPass(t)
    \/ \E t \in Workers : WorkerDispatch(t)
    \/ \E t \in Workers : WorkerEndRenderPass(t)
    \/ \E t \in Workers : WorkerMerge(t)

SpecWorkers == Init /\ [][NextWorkers]_vars

(***************************************************************************)
(* The invalidate callback and its registrations.  A resource that is      *)
(* resized or destroyed runs the callbacks on its list; the pass's is on   *)
(* the list of the textures and buffers its description binds.  The        *)
(* callback's return value says whether it stays on the list.  The pass is *)
(* torn down by Reset, which clears the description, or by its destructor, *)
(* which destroys it.                                                      *)
(***************************************************************************)
\* The resource bound at a slot is resized or destroyed: the callback runs.
ResourceEvent(p, slot, flags) ==
    LET r == OnResourceInvalidated(p, flags)
    IN [r.p EXCEPT !.callbacks = IF r.ret THEN @ ELSE @ \ {slot}]

\* ~CComputeRenderPass(): the members go, the description with its registrations.
DestroyPass(p) ==
    [p EXCEPT !.m_resourceDesc = EmptyDesc,
              !.callbacks = {},
              !.m_pResourceSet = nullptr,
              !.m_pResourceLayout = nullptr,
              !.m_pPipelineState = nullptr]

ResourceInvalidated ==
    /\ ~crashed
    /\ \E slot \in callbacks, flags \in InvalidateFlags :
          Commit(ResourceEvent(Self, slot, flags))
    /\ UNCHANGED <<pc, pendingRet, workers, layoutKeys>>

Destroy ==
    /\ Idle
    /\ Commit(DestroyPass(Self))
    /\ pc' = "destroyed"
    /\ UNCHANGED <<pendingRet, workers, layoutKeys>>

NextCallbacks ==
    \/ BindTexture
    \/ BindBuffer
    \/ BindSampler
    \/ CallPrepareResourcesForUse
    \/ CallReset
    \/ ResourceInvalidated
    \/ Destroy

SpecCallbacks == Init /\ [][NextCallbacks]_vars

(***************************************************************************)
(* SDeviceResourceLayoutDesc::SLayoutBindPoint (DeviceObjects.inl) and the *)
(* ordered map a layout description keeps its bind points in.  A bind      *)
(* point is a slot type (the enumerators as their values) and a layout     *)
(* slot.  The map holds its keys in the order of operator<, and takes two  *)
(* keys for one when neither is less than the other.                       *)
(***************************************************************************)
SlotTypes == 0..1
LayoutSlots == 0..MaxLayoutSlot
LayoutBindPoints == [slotType : SlotTypes, layoutSlot : LayoutSlots]

\* bool SLayoutBindPoint::operator==(const SLayoutBindPoint& other) const
LayoutBindPointEqual(this, other) ==
    this.slotType = other.slotType /\ this.layoutSlot = other.layoutSlot

\* Faulty variant of operator<: the slot type is not compared.
LayoutBindPointLessBySlot(this, other) == this.layoutSlot < other.layoutSlot

\* bool SLayoutBindPoint::operator<(const SLayoutBindPoint& other) const
LayoutBindPointLess(this, other) ==
    IF this.slotType # other.slotType
    THEN this.slotType < other.slotType
    ELSE this.layoutSlot < other.layoutSlot

\* The place of the first key that is not less than bindPoint (the map's lower bound).
LowerBound(keys, bindPoint) ==
    LET notLess == {i \in 1..Len(keys) : ~LayoutBindPointLess(keys[i], bindPoint)}
    IN IF notLess = {} THEN Len(keys) + 1
       ELSE CHOOSE i \in notLess : \A j \in notLess : i <= j

\* The keys after the insertion of bindPoint: none is added if the map has an equivalent one.
MapInsert(keys, bindPoint) ==
    LET at == LowerBound(keys, bindPoint)
    IN IF at <= Len(keys) /\ ~LayoutBindPointLess(bindPoint, keys[at])
       THEN keys
       ELSE SubSeq(keys, 1, at - 1) \o <<bindPoint>> \o SubSeq(keys, at, Len(keys))

InsertBindPoint ==
    /\ \E bindPoint \in LayoutBindPoints : layoutKeys' = MapInsert(layoutKeys, bindPoint)
    /\ Commit(Self)
    /\ UNCHANGED <<pc, pendingRet, workers>>

ClearBindPoints ==
    /\ layoutKeys' = <<>>
    /\ Commit(Self)
    /\ UNCHANGED <<pc, pendingRet, workers>>

NextBindPoints == InsertBindPoint \/ ClearBindPoints

SpecBindPoints == Init /\ [][NextBindPoints]_vars

(***************************************************************************)
(* The retry of a dirty pass.  After any history of operations the caller  *)
(* of a dirty pass that holds a resource set settles into its per-frame    *)
(* sequence: BeginConstantUpdate (or not), PrepareResourcesForUse,         *)
(* Dispatch, frame after frame, with no mutation and no invalidation; the  *)
(* device now answers every request with success.  The frames keep coming: *)
(* the steps of a frame are weakly fair.                                   *)
(***************************************************************************)
ResolvedOutcomes ==
    {dev \in DeviceOutcomes : dev.updateOk /\ dev.layoutOk /\ dev.pso = "valid"}

InFrame == pc \in {"frame:begin", "frame:prepare", "frame:dispatch"}

Resolve ==
    /\ Idle
    /\ IsDirty(Self)
    /\ m_pResourceSet # nullptr
    /\ Commit(Self)
    /\ pc' = "frame:begin"
    /\ UNCHANGED <<pendingRet, workers, layoutKeys>>

FrameBeginConstantUpdate ==
    /\ pc = "frame:begin"
    /\ \E dev \in ResolvedOutcomes : Commit(BeginConstantUpdate(Self, dev).p)
    /\ pc' = "frame:prepare"
    /\ UNCHANGED <<pendingRet, workers, layoutKeys>>

FrameSkipConstantUpdate ==
    /\ pc = "frame:begin"
    /\ Commit(Self)
    /\ pc' = "frame:prepare"
    /\ UNCHANGED <<pendingRet, workers, layoutKeys>>

FramePrepareResourcesForUse ==
    /\ pc = "frame:prepare"
    /\ \E dev \in ResolvedOutcomes : Commit(PrepareResourcesForUse(Self, dev).p)
    /\ pc' = "frame:dispatch"
    /\ UNCHANGED <<pendingRet, workers, layoutKeys>>

FrameDispatch ==
    /\ pc = "frame:dispatch"
    /\ Commit(Dispatch(Self))
    /\ pc' = "frame:begin"
    /\ UNCHANGED <<pendingRet, workers, layoutKeys>>

\* The phase of the frame that follows a phase.
NextPhase(phase) ==
    IF phase = "frame:begin" THEN "frame:prepare"
    ELSE IF phase = "frame:prepare" THEN "frame:dispatch"
    ELSE "frame:begin"

\* The caller takes the next step of its frame.  Every step of a frame moves pc to the
\* next phase and no other step does, so these are the steps of the four Frame actions.
FrameAdvances == InFrame /\ pc' = NextPhase(pc)

\* The invalidate callback, before the pass is left alone.
InvalidatedBeforeRetry == pc = "idle" /\ CallOnResourceInvalidated

\* Before the frames: the operations that configure, compile, reset and invalidate a pass.
NextRetry ==
    \/ CallSetTechnique
    \/ CallSetTexture
    \/ CallCompile
    \/ CallBeginConstantUpdate
    \/ CallPrepareResourcesForUse
    \/ CallReset
    \/ InvalidatedBeforeRetry
    \/ Resolve
    \/ FrameBeginConstantUpdate
    \/ FrameSkipConstantUpdate
    \/ FramePrepareResourcesForUse
    \/ FrameDispatch

SpecRetry == Init /\ [][NextRetry]_vars /\ WF_pc(FrameAdvances)

(***************************************************************************)
(* Reading an operation's result.                                          *)
(***************************************************************************)
\* The names of the calls, in order.
Names(cs) == [i \in 1..Len(cs) |-> cs[i][1]]

Called(cs, name) == \E i \in 1..Len(cs) : cs[i][1] = name

\* The calls of one name, in order.
CallsOf(cs, name) == SelectSeq(cs, LAMBDA c : c[1] = name)

\* A pass without the log of calls: its fields.
Fields(p) == [p EXCEPT !.calls = <<>>]

\* The compiled artifacts other than the resource set.
LayoutAndPso(p) ==
    <<p.m_pResourceLayout, p.m_pPipelineState, p.m_currentPsoUpdateCount, p.m_constantManager>>

BackendCommands ==
    {"SetResourceLayout", "SetPipelineState", "SetResources", "SetInlineConstantBuffer",
     "Dispatch"}

CompileSteps == {"Update", "CreateResourceLayout", "CreateComputePSO"}

\* The commands Dispatch emits for pass p.
Emitted(p) == Dispatch(Fields(p)).calls

\* Exactly one backend dispatch, with the pass's dispatch size.
DispatchesOnce(p) ==
    CallsOf(Emitted(p), "Dispatch") =
        <<<<"Dispatch", p.m_dispatchSizeX, p.m_dispatchSizeY, p.m_dispatchSizeZ>>>>

(***************************************************************************)
(* C1.  Dispatch emits backend commands only if the dirty mask is None at  *)
(* the call, and emits nothing when a dirty bit is set; it makes no call   *)
(* of Compile's (Update, CreateResourceLayout, CreateComputePSO) and       *)
(* leaves every field of the pass as it was.                               *)
(***************************************************************************)
C1_DispatchOnlyWhenClean ==
    LET q == Dispatch(Self)
    IN /\ q.calls # <<>> => m_dirtyMask = eDirty_None
       /\ m_dirtyMask # eDirty_None => q.calls = <<>>
       /\ \A i \in 1..Len(q.calls) : q.calls[i][1] \in BackendCommands
       /\ Fields(q) = Self

\* A compiled pass, for which Dispatch emits its commands.
C1_Witness ==
    /\ m_dirtyMask = eDirty_None
    /\ m_bCompiled
    /\ Called(Emitted(Self), "Dispatch")
    /\ Called(Emitted(Self), "SetInlineConstantBuffer")

(***************************************************************************)
(* C2.  An invalidation is never lost: once the callback has run, the      *)
(* Resources bit stays set until a resource-set Update that began after it *)
(* has succeeded, whatever the callback interleaves with; hence Dispatch   *)
(* never emits against a resource set that is stale with respect to an     *)
(* invalidation.                                                           *)
(***************************************************************************)
C2_InvalidationNeverLost ==
    setStale =>
        /\ eDirty_Resources \in m_dirtyMask
        /\ Emitted(Self) = <<>>

(***************************************************************************)
(* C3, as claimed.  After a call of Compile that succeeds, made directly   *)
(* or through BeginConstantUpdate or PrepareResourcesForUse, the dirty     *)
(* mask of the pass is None and a Dispatch that follows at once issues     *)
(* exactly one backend dispatch with the configured dimensions.            *)
(***************************************************************************)
CleanAndDispatches(p) == p.m_dirtyMask = eDirty_None /\ DispatchesOnce(p)

UpdateFailed(c, dev) == Called(c.p.calls, "Update") /\ ~dev.updateOk /\ ~c.p.crashed

UnchangedByFailedUpdate(p, ret) ==
    /\ ret = m_dirtyMask
    /\ p.m_dirtyMask = m_dirtyMask
    /\ p.m_pResourceLayout = m_pResourceLayout
    /\ p.m_pPipelineState = m_pPipelineState
    /\ Emitted(p) = <<>>

C4_FailedUpdateLeavesPassDirty ==
    \A dev \in DeviceOutcomes :
        LET c == Compile(Self, dev)
            b == BeginConstantUpdate(Self, dev)
            u == PrepareResourcesForUse(Self, dev)
        IN UpdateFailed(c, dev) =>
              /\ UnchangedByFailedUpdate(c.p, c.ret)
              /\ b.ret # <<>> => UnchangedByFailedUpdate(b.p, b.ret[1])
              /\ u.ret # <<>> => UnchangedByFailedUpdate(u.p, u.ret[1])

\* A pass compiled before, then invalidated, whose Update fails in PrepareResourcesForUse.
C4_Witness ==
    /\ m_pResourceLayout # nullptr
    /\ m_pPipelineState # nullptr
    /\ m_pResourceSet # nullptr
    /\ m_dirtyMask = {eDirty_Resources}
    /\ \E dev \in DeviceOutcomes :
          /\ UpdateFailed(Compile(Self, dev), dev)
          /\ PrepareResourcesForUse(Self, dev).ret = <<{eDirty_Resources}>>

(***************************************************************************)
(* C5.  Within one call of Compile the resource-set Update, the creation   *)
(* of the resource layout and the creation of the pipeline state happen in *)
(* that order; when one of them fails no later one is attempted, the value *)
(* returned is the dirty mask the call started with, and the compiled flag *)
(* is false.                                                               *)
(***************************************************************************)
\* The calls of Compile's three steps, in the order they were made.
StepsTaken(cs) == Names(SelectSeq(cs, LAMBDA c : c[1] \in CompileSteps))

StepOrders ==
    { <<>>, <<"Update">>, <<"Update", "CreateResourceLayout">>,
      <<"Update", "CreateResourceLayout", "CreateComputePSO">>,
      <<"CreateResourceLayout">>, <<"CreateResourceLayout", "CreateComputePSO">> }

\* The step of Compile that failed under the outcomes dev, if one did.
FailedStep(cs, dev) ==
    IF Called(cs, "Update") /\ ~dev.updateOk THEN <<"Update">>
    ELSE IF Called(cs, "CreateResourceLayout") /\ ~dev.layoutOk THEN <<"CreateResourceLayout">>
    ELSE IF Called(cs, "CreateComputePSO") /\ dev.pso # "valid" THEN <<"CreateComputePSO">>
    ELSE <<>>

C5_CompileStepsInOrder ==
    \A dev \in DeviceOutcomes :
        LET c == Compile(Self, dev)
            steps == StepsTaken(c.p.calls)
            failed == FailedStep(c.p.calls, dev)
        IN ~c.p.crashed =>
              /\ steps \in StepOrders
              /\ failed # <<>> =>
                    /\ steps[Len(steps)] = failed[1]
                    /\ c.p.calls[Len(c.p.calls)][1] = failed[1]
                    /\ c.ret = m_dirtyMask
                    /\ c.ret # eDirty_None
                    /\ ~c.p.m_bCompiled
              /\ failed = <<>> => c.ret = eDirty_None /\ c.p.m_bCompiled

\* A pass whose Update and layout succeed and whose pipeline state then fails to build.
C5_Witness ==
    /\ m_bCompiled
    /\ m_dirtyMask = eDirty_All
    /\ m_pResourceSet # nullptr
    /\ \E dev \in DeviceOutcomes :
          LET c == Compile(Self, dev)
          IN /\ StepsTaken(c.p.calls) = <<"Update", "CreateResourceLayout", "CreateComputePSO">>
             /\ FailedStep(c.p.calls, dev) = <<"CreateComputePSO">>

(***************************************************************************)
(* C6.  Compile does the work its dirty bits ask for.  With only Resources *)
(* set, the resource set is updated and the layout, the pipeline state,    *)
(* the snapshot of the update count and the reflected constant buffers are *)
(* not rebuilt.  With Resources clear and Technique or ResourceLayout set, *)
(* Update is not called, the layout is rebuilt, and the pipeline state is  *)
(* rebuilt unless the layout failed.  With the mask None nothing is        *)
(* touched.                                                                *)
(***************************************************************************)
C6_CompileWorkFollowsDirtyBits ==
    \A dev \in DeviceOutcomes :
        LET c == Compile(Self, dev)
            steps == StepsTaken(c.p.calls)
        IN ~c.p.crashed =>
              /\ m_dirtyMask = {eDirty_Resources} =>
                    /\ Names(c.p.calls) = <<"Update">>
                    /\ LayoutAndPso(c.p) = LayoutAndPso(Self)
              /\ (m_dirtyMask # eDirty_None /\ eDirty_Resources \notin m_dirtyMask) =>
                    /\ steps = IF dev.layoutOk
                               THEN <<"CreateResourceLayout", "CreateComputePSO">>
                               ELSE <<"CreateResourceLayout">>
                    /\ c.p.m_pResourceSet = m_pResourceSet
                    /\ c.p.m_pResourceLayout =
                          IF dev.layoutOk THEN Ptr(ResourceLayoutDesc(c.p)) ELSE nullptr
                    /\ (dev.layoutOk /\ dev.pso # "null") =>
                          /\ Deref(c.p.m_pPipelineState).desc.layout = c.p.m_pResourceLayout
                          /\ Deref(c.p.m_pPipelineState).desc.technique = m_techniqueName
                    /\ (dev.layoutOk /\ dev.pso = "null") => c.p.m_pPipelineState = nullptr
                    /\ ~dev.layoutOk => c.p.m_pPipelineState = m_pPipelineState
              /\ m_dirtyMask = eDirty_None =>
                    /\ c.p.calls = <<>>
                    /\ c.p.m_pResourceSet = m_pResourceSet
                    /\ LayoutAndPso(c.p) = LayoutAndPso(Self)

\* A compiled pass of which only a resource was replaced, with a snapshot and reflected buffers
\* to keep.
C6_Witness ==
    /\ m_dirtyMask = {eDirty_Resources}
    /\ m_bResourcesInvalidated = FALSE
    /\ m_pResourceLayout # nullptr
    /\ m_pPipelineState # nullptr
    /\ m_currentPsoUpdateCount = 1
    /\ m_constantManager.buffers # <<>>
    /\ \E dev \in DeviceOutcomes : Compile(Self, dev).ret = eDirty_None

(***************************************************************************)
(* C7.  The dirty mask only accumulates: a step of any mutator or of the   *)
(* invalidation callback ORs its delta into the mask, and no step removes  *)
(* a set bit other than the store of the result of a successful Compile,   *)
(* which leaves the mask None (a failed Compile, a store of a failed       *)
(* Compile's result, Dispatch, Execute and Reset never remove a set bit).  *)
(***************************************************************************)
C7_MaskOnlyAccumulates ==
    [][ \/ m_dirtyMask \subseteq m_dirtyMask'
        \/ m_dirtyMask' = eDirty_None /\ m_bCompiled' ]_vars

(***************************************************************************)
(* C8.  After Reset the dirty mask is All, the dispatch size is (0,0,0),   *)
(* the compiled flag is false, the resource set, the resource layout and   *)
(* the pipeline state are released, and the snapshot of the pipeline       *)
(* state's update count is 0.                                              *)
(***************************************************************************)
C8_ResetReleasesEverything ==
    LET q == Reset(Self)
    IN /\ q.m_dirtyMask = eDirty_All
       /\ <<q.m_dispatchSizeX, q.m_dispatchSizeY, q.m_dispatchSizeZ>> = <<0, 0, 0>>
       /\ q.m_bCompiled = FALSE
       /\ q.m_pResourceSet = nullptr
       /\ q.m_pResourceLayout = nullptr
       /\ q.m_pPipelineState = nullptr
       /\ q.m_currentPsoUpdateCount = 0

\* A compiled pass holding all its artifacts, about to be reset.
C8_Witness ==
    /\ m_bCompiled
    /\ m_dirtyMask = eDirty_None
    /\ <<m_dispatchSizeX, m_dispatchSizeY, m_dispatchSizeZ>> = <<2, 3, 4>>
    /\ m_pResourceSet # nullptr
    /\ m_pResourceLayout # nullptr
    /\ m_pPipelineState # nullptr
    /\ m_currentPsoUpdateCount = 1
    /\ Fields(Reset(Self)) # Self

(***************************************************************************)
(* C9.  The invalidation callback ORs the Resources bit into the dirty     *)
(* mask and changes nothing else, and does so whatever its flags are; it   *)
(* returns false exactly when the flags contain eResourceDestroyed.  From  *)
(* a compiled pass one invalidation leaves the mask exactly Resources, and *)
(* a Dispatch made before a recompile emits nothing.                       *)
(***************************************************************************)
C9_CallbackMarksResourcesDirty ==
    \A flags \in InvalidateFlags :
        LET r == OnResourceInvalidated(Self, flags)
        IN /\ r.p.m_dirtyMask = m_dirtyMask \cup {eDirty_Resources}
           /\ [r.p EXCEPT !.m_dirtyMask = m_dirtyMask, !.setStale = setStale] = Self
           /\ r.ret = (eResourceDestroyed \notin flags)
           /\ m_dirtyMask = eDirty_None =>
                 /\ r.p.m_dirtyMask = {eDirty_Resources}
                 /\ Emitted(r.p) = <<>>

\* A pass that was compiled and has been invalidated since.
C9_Witness ==
    /\ m_bCompiled
    /\ setStale
    /\ m_dirtyMask = {eDirty_Resources}
    /\ ~m_bResourcesInvalidated
    /\ Emitted(Self) = <<>>

(***************************************************************************)
(* C10.  PrepareResourcesForUse, when a constant update is pending, ends   *)
(* the named constant update, clears the pending flag and does not call    *)
(* Compile, leaving the dirty mask as it was; otherwise, when the pass is  *)
(* dirty, it calls Compile once and stores the result as the dirty mask.   *)
(* In every case the backend prepare calls are issued if and only if the   *)
(* dirty mask is then None.                                                *)
(***************************************************************************)
PrepareCommands == {"PrepareResourcesForUse", "PrepareInlineConstantBufferForUse"}

\* The calls before the first prepare call, and the prepare calls.
BeforePrepare(cs) == SelectSeq(cs, LAMBDA c : c[1] \notin PrepareCommands)

PrepareCalls(cs) == SelectSeq(cs, LAMBDA c : c[1] \in PrepareCommands)

C10_PrepareResourcesForUse ==
    \A dev \in DeviceOutcomes :
        LET u == PrepareResourcesForUse(Self, dev)
            c == Compile(Self, dev)
        IN ~u.p.crashed =>
              /\ m_bPendingConstantUpdate =>
                    /\ BeforePrepare(u.p.calls) = <<<<"EndNamedConstantUpdate">>>>
                    /\ u.ret = <<>>
                    /\ u.p.m_dirtyMask = m_dirtyMask
              /\ (~m_bPendingConstantUpdate /\ m_dirtyMask # eDirty_None) =>
                    /\ BeforePrepare(u.p.calls) = c.p.calls
                    /\ u.ret = <<c.ret>>
                    /\ u.p.m_dirtyMask = c.ret
              /\ (~m_bPendingConstantUpdate /\ m_dirtyMask = eDirty_None) =>
                    /\ BeforePrepare(u.p.calls) = <<>>
                    /\ u.ret = <<>>
                    /\ u.p.m_dirtyMask = m_dirtyMask
              /\ u.p.m_bPendingConstantUpdate = FALSE
              /\ u.p.calls = BeforePrepare(u.p.calls) \o PrepareCalls(u.p.calls)
              /\ PrepareCalls(u.p.calls) # <<>> <=> u.p.m_dirtyMask = eDirty_None
              /\ u.p.m_dirtyMask = eDirty_None =>
                    /\ Len(CallsOf(u.p.calls, "PrepareResourcesForUse")) = 1
                    /\ Len(CallsOf(u.p.calls, "PrepareInlineConstantBufferForUse")) =
                          Len(u.p.m_constantManager.buffers)

\* A constant update is pending on a pass that is still dirty: no Compile, no prepare call.
C10_Witness ==
    /\ m_bPendingConstantUpdate
    /\ m_constantManager.updating
    /\ m_pResourceSet # nullptr
    /\ m_dirtyMask = {eDirty_Technique}
    /\ \E dev \in DeviceOutcomes :
          PrepareResourcesForUse(Self, dev).p.calls = <<<<"EndNamedConstantUpdate">>>>

(***************************************************************************)
(* C11.  The bind slots are the same in the three places that assign them: *)
(* the resource layout built by Compile, the prepare calls of              *)
(* PrepareResourcesForUse and the bind calls of Dispatch each put the      *)
(* resource set at bind slot 0 and the i-th inline constant buffer of the  *)
(* constant manager (i = 1, 2, ...) at bind slot i; so for a compiled pass *)
(* the slots bound by Dispatch are the slots its layout declares.          *)
(***************************************************************************)
\* The bind slots of the calls of one name, in order (the bind slot is the first argument).
BindSlots(cs, name) == [i \in 1..Len(CallsOf(cs, name)) |-> CallsOf(cs, name)[i][2]]

\* The bind slots a layout declares for its inline constant buffers, in order.
LayoutBufferSlots(layout) ==
    [i \in 1..Len(layout.constantBuffers) |-> layout.constantBuffers[i].bindSlot]

\* 1, 2, ..., n
Counting(n) == [i \in 1..n |-> i]

\* The i-th call of the name carries the i-th buffer of the pass.
CarriesBuffers(cs, name, p) ==
    \A i \in 1..Len(CallsOf(cs, name)) :
        /\ CallsOf(cs, name)[i][3] = p.m_constantManager.buffers[i].pBuffer
        /\ CallsOf(cs, name)[i][4] = p.m_constantManager.buffers[i].shaderSlot

C11_BindSlotsAgree ==
    /\ \A dev \in DeviceOutcomes :
          LET c == Compile(Self, dev)
              u == PrepareResourcesForUse(Self, dev)
              n == Len(u.p.m_constantManager.buffers)
          IN /\ (Called(c.p.calls, "CreateResourceLayout") /\ dev.layoutOk) =>
                   LET layout == Deref(c.p.m_pResourceLayout)
                   IN /\ layout.resourceSet.bindSlot = 0
                      /\ LayoutBufferSlots(layout) = Counting(Len(c.p.m_constantManager.buffers))
                      /\ \A i \in 1..Len(layout.constantBuffers) :
                            layout.constantBuffers[i].shaderSlot =
                                c.p.m_constantManager.buffers[i].shaderSlot
             /\ Called(u.p.calls, "PrepareResourcesForUse") =>
                   /\ BindSlots(u.p.calls, "PrepareResourcesForUse") = <<0>>
                   /\ BindSlots(u.p.calls, "PrepareInlineConstantBufferForUse") = Counting(n)
                   /\ CarriesBuffers(u.p.calls, "PrepareInlineConstantBufferForUse", u.p)
                   /\ BindSlots(Emitted(u.p), "SetInlineConstantBuffer") =
                         BindSlots(u.p.calls, "PrepareInlineConstantBufferForUse")
    /\ m_dirtyMask = eDirty_None =>
          /\ BindSlots(Emitted(Self), "SetResources") = <<0>>
          /\ BindSlots(Emitted(Self), "SetInlineConstantBuffer") =
                Counting(Len(m_constantManager.buffers))
          /\ CarriesBuffers(Emitted(Self), "SetInlineConstantBuffer", Self)
          /\ m_pResourceLayout # nullptr
          /\ Deref(m_pResourceLayout).resourceSet.bindSlot = 0
          /\ LayoutBufferSlots(Deref(m_pResourceLayout)) =
                BindSlots(Emitted(Self), "SetInlineConstantBuffer")

\* A compiled pass with two reflected constant buffers.
C11_Witness ==
    /\ m_dirtyMask = eDirty_None
    /\ Len(m_constantManager.buffers) = 2
    /\ m_pResourceLayout # nullptr
    /\ BindSlots(Emitted(Self), "SetInlineConstantBuffer") = <<1, 2>>

(***************************************************************************)
(* C12.  Retry is live.  Once the cause of the compile failures is gone    *)
(* (Update returns true, the layout and the pipeline state are created)    *)
(* and nothing mutates or invalidates the pass any more, the caller that   *)
(* runs BeginConstantUpdate (or not), PrepareResourcesForUse and Dispatch  *)
(* every frame reaches a Dispatch with the dirty mask None, which emits    *)
(* the backend dispatch; in the frames before, Dispatch emits nothing, and *)
(* no frame ends in an error.                                              *)
(***************************************************************************)
DispatchEmits == pc = "frame:dispatch" /\ Called(Emitted(Self), "Dispatch")

C12_RetryEventuallyDispatches ==
    /\ (InFrame /\ IsDirty(Self)) ~> (DispatchEmits /\ m_dirtyMask = eDirty_None)
    /\ [](InFrame => ~crashed /\ (IsDirty(Self) => Emitted(Self) = <<>>))

\* The Dispatch of a frame emits, for a pass that holds compiled artifacts.
C12_Witness ==
    /\ DispatchEmits
    /\ m_bCompiled
    /\ m_pPipelineState # nullptr

(***************************************************************************)
(* C13.  A pass never dispatches without a prior successful compile.  A    *)
(* newly constructed pass and a freshly Reset pass emit nothing on         *)
(* Dispatch, and a pass for which Dispatch emits nothing becomes one for   *)
(* which it emits only in a step that runs Compile to full success         *)
(* (Compile returns None) and stores that result: so every backend         *)
(* Dispatch is preceded by a successful Compile that came after the        *)
(* construction and after the most recent Reset.                           *)
(***************************************************************************)
PassFlags == {eFlags_None, {eFlags_ReflectConstantBuffersFromShader}}

\* This step is a call that ran Compile to full success and stored its result.
CompiledInThisStep ==
    \E dev \in DeviceOutcomes :
        LET c == Compile(Self, dev)
        IN /\ IsDirty(Self)
           /\ c.ret = eDirty_None
           /\ ~c.p.crashed
           /\ Called(c.p.calls, "CreateComputePSO") \/ Called(c.p.calls, "Update")
           /\ \/ Commit(BeginConstantUpdate(Self, dev).p)
              \/ Commit(PrepareResourcesForUse(Self, dev).p)

C13_NoDispatchBeforeCompile ==
    /\ [](/\ \A flags \in PassFlags : Emitted(NewPass(flags)) = <<>>
          /\ Emitted(Reset(Self)) = <<>>)
    /\ [][Emitted(Self) = <<>> /\ Emitted(Self)' # <<>> => CompiledInThisStep]_vars

\* A configured pass that compiled and for which Dispatch emits the backend dispatch.
C13_Witness ==
    /\ Called(Emitted(Self), "Dispatch")
    /\ m_pShader # NullShader
    /\ m_dispatchSizeX = 2

(***************************************************************************)
(* C14.  BeginConstantUpdate on a pass that reflects its constant buffers  *)
(* from the shader first brings the compile up to date (it calls Compile   *)
(* and stores the result if the pass is dirty), then sets the pending      *)
(* flag and opens the named-constant write region; and whenever            *)
(* BeginNamedConstantUpdate is invoked the dirty mask is None.             *)
(***************************************************************************)
C14_RegionOpenedOnlyWhenClean ==
    \A dev \in DeviceOutcomes :
        LET b == BeginConstantUpdate(Self, dev)
            n == Len(b.p.calls)
        IN eFlags_ReflectConstantBuffersFromShader \in m_flags /\ ~b.p.crashed =>
              /\ IsDirty(Self) =>
                    /\ b.ret = <<Compile(Self, dev).ret>>
                    /\ b.p.m_dirtyMask = b.ret[1]
              /\ ~IsDirty(Self) => b.ret = <<>>
              /\ b.p.m_bPendingConstantUpdate
              /\ n > 0 /\ b.p.calls[n][1] = "BeginNamedConstantUpdate"
              /\ b.p.m_constantManager.updating
              /\ Called(b.p.calls, "BeginNamedConstantUpdate") =>
                    b.p.m_dirtyMask = eDirty_None

(***************************************************************************)
(* C15.  BeginConstantUpdate on a pass that is not configured with         *)
(* ReflectConstantBuffersFromShader is a no-op, whatever the prior state:  *)
(* it makes no call (none of Compile's, no BeginNamedConstantUpdate),      *)
(* reports no compile, leaves the pending flag and the write region as     *)
(* they were, and leaves the dirty mask and the compiled artifacts         *)
(* unchanged.                                                              *)
(***************************************************************************)
C15_NoOpWithoutReflectFlag ==
    eFlags_ReflectConstantBuffersFromShader \notin m_flags =>
        \A dev \in DeviceOutcomes :
            LET b == BeginConstantUpdate(Self, dev)
            IN /\ b.p.calls = <<>>
               /\ b.ret = <<>>
               /\ b.p.m_bPendingConstantUpdate = m_bPendingConstantUpdate
               /\ b.p.m_constantManager = m_constantManager
               /\ b.p.m_dirtyMask = m_dirtyMask
               /\ b.p.m_bResourcesInvalidated = m_bResourcesInvalidated
               /\ b.p.m_bCompiled = m_bCompiled
               /\ b.p.m_pResourceSet = m_pResourceSet
               /\ LayoutAndPso(b.p) = LayoutAndPso(Self)
               /\ ~b.p.crashed

\* A pass without the flag that holds compiled artifacts and has become dirty again.
C15_Witness ==
    /\ eFlags_ReflectConstantBuffersFromShader \notin m_flags
    /\ IsDirty(Self)
    /\ m_pPipelineState # nullptr
    /\ m_pResourceLayout # nullptr
    /\ ~m_bPendingConstantUpdate

(***************************************************************************)
(* C16.  Execute.  With the pass scheduler active, the pass is handed to   *)
(* the scheduler exactly once (AddPass) and Execute returns: no begin,     *)
(* bind, dispatch or end command, no change of the pass.  With the         *)
(* scheduler not active, Execute runs BeginRenderPass, then Dispatch, then *)
(* EndRenderPass, in that order, and makes none of Compile's calls.        *)
(***************************************************************************)
C16_Execute ==
    LET scheduled == Execute(Self, TRUE)
        direct == Execute(Self, FALSE)
    IN /\ scheduled.calls = <<<<"AddPass">>>>
       /\ Fields(scheduled) = Self
       /\ direct.calls = <<<<"BeginRenderPass">>>> \o Emitted(Self) \o <<<<"EndRenderPass">>>>
       /\ \A i \in 1..Len(direct.calls) : direct.calls[i][1] \notin CompileSteps
       /\ ~Called(direct.calls, "AddPass")
       /\ IsDirty(Self) => direct.calls = <<<<"BeginRenderPass">>, <<"EndRenderPass">>>>
       /\ direct.m_dirtyMask = m_dirtyMask /\ direct.m_bCompiled = m_bCompiled

\* A clean pass: Execute without the scheduler emits the dispatch between begin and end.
C16_Witness ==
    /\ m_dirtyMask = eDirty_None
    /\ Len(Execute(Self, FALSE).calls) > 2
    /\ Names(Execute(Self, FALSE).calls)[Len(Execute(Self, FALSE).calls) - 1] = "Dispatch"

(***************************************************************************)
(* C17.  Each setter of the resource-set description (SetConstantBuffer,   *)
(* SetTexture, SetSampler, SetBuffer) stores the new binding at the bind   *)
(* point and returns the delta of comparing it with the binding that was   *)
(* there: None if the binding is unchanged, Resources if only the content  *)
(* changed at an occupied bind point of the same resource type,            *)
(* ResourceLayout if the bind point was newly occupied or its resource     *)
(* type changed.                                                           *)
(***************************************************************************)
BindingTypes == {"Texture", "Buffer", "Sampler", "ConstantBuffer"}

\* The setter for resources of one type; samplers and constant buffers take no view.
DescSet(desc, type, shaderSlot, resource, hView, shaderStages) ==
    CASE type = "Texture" -> DescSetTexture(desc, shaderSlot, resource, hView, shaderStages)
      [] type = "Buffer" -> DescSetBuffer(desc, shaderSlot, resource, hView, shaderStages)
      [] type = "Sampler" -> DescSetSampler(desc, shaderSlot, resource, shaderStages)
      [] type = "ConstantBuffer" ->
             DescSetConstantBuffer(desc, shaderSlot, resource, shaderStages)

HasView(type) == type \in {"Texture", "Buffer"}

\* The binding at the bind point is this resource (and view) of this type.
Binds(binding, type, resource, hView) ==
    /\ binding.type = type
    /\ binding.resource = resource
    /\ HasView(type) => binding.view = hView

StageMasks == {{}, {EShaderStage_Compute}}

RECURSIVE BindShapes(_, _, _, _)
\* Pass p after binding, slot by slot, a resource of the type desc has at the slot.
BindShapes(p, slots, desc, resource) ==
    IF slots = {} THEN p
    ELSE LET slot == CHOOSE s \in slots : \A t \in slots : s <= t
             q == IF desc[slot].type = "InvalidType" THEN p
                  ELSE SetResource(p, DescSet(p.m_resourceDesc, desc[slot].type, slot,
                                              resource, desc[slot].view,
                                              desc[slot].stages)).p
         IN BindShapes(q, slots \ {slot}, desc, resource)

\* A second pass: constructed, given the technique and the binding shapes of the first.
SecondPass(flags, resource) ==
    LET constructed == NewPass(flags)
        configured == IF m_pShader = NullShader THEN constructed
                      ELSE SetTechnique(constructed, m_pShader, m_techniqueName, m_rtMask).p
    IN BindShapes(configured, Slots, m_resourceDesc, resource)

BuildsLayout(p) == p.m_dirtyMask \cap {eDirty_Technique, eDirty_ResourceLayout} # {}

\* The layout and PSO of the pass, built by its next Compile or held since its last,
\* are those a second pass with these flags builds.
SameLayoutAsSecondPass(flags) ==
    \A resource \in DescResources, dev \in ResolvedOutcomes :
        LET second == Compile(SecondPass(flags, resource), dev).p
            first == IF BuildsLayout(Self) THEN Compile(Self, dev).p ELSE Self
        IN m_pResourceSet # nullptr =>
              /\ first.m_pResourceLayout # nullptr
              /\ first.m_pResourceLayout = second.m_pResourceLayout
              /\ first.m_pPipelineState = second.m_pPipelineState

\* As claimed: whatever the flags the second pass was constructed with.
C19_SameLayoutForSameShapes ==
    \A flags \in PassFlags : SameLayoutAsSecondPass(flags)

\* The second pass has the flags of the first.
C19_SameLayoutForSameShapesAndFlags == SameLayoutAsSecondPass(m_flags)

\* A clean reflecting pass with a bound resource: its layout has the resource-set slot
\* and the shader's two constant buffers.
C19_Witness ==
    /\ eFlags_ReflectConstantBuffersFromShader \in m_flags
    /\ m_dirtyMask = eDirty_None
    /\ m_resourceDesc[0].type # "InvalidType"
    /\ m_pResourceLayout # nullptr
    /\ Len(Deref(m_pResourceLayout).constantBuffers) = 2

(***************************************************************************)
(* C20.  The constant-buffer write region.  As claimed: at the return of   *)
(* every public operation of the pass (BeginConstantUpdate,                *)
(* PrepareResourcesForUse, Dispatch, Execute, Reset) no write region is    *)
(* left open.                                                              *)
(***************************************************************************)
RegionOpen(p) == p.m_constantManager.updating

C20_NoRegionOpenAtReturn ==
    /\ \A dev \in DeviceOutcomes :
          /\ ~RegionOpen(BeginConstantUpdate(Self, dev).p)
          /\ ~RegionOpen(PrepareResourcesForUse(Self, dev).p)
    /\ ~RegionOpen(Dispatch(Self))
    /\ \A schedulerActive \in BOOLEAN : ~RegionOpen(Execute(Self, schedulerActive))
    /\ ~RegionOpen(Reset(Self))

(***************************************************************************)
(* C20, amended.  The write region is opened by BeginConstantUpdate on a   *)
(* pass that reflects its constant buffers and is still open when that     *)
(* call returns; the next PrepareResourcesForUse closes it and Reset       *)
(* discards it, so that no region is open when either returns; Dispatch    *)
(* and Execute neither open nor close it.  Between calls a region is open  *)
(* only on a reflecting pass whose pending flag is set.                    *)
(***************************************************************************)
C20_RegionOpenFromBeginToPrepare ==
    /\ RegionOpen(Self) =>
          m_bPendingConstantUpdate /\ eFlags_ReflectConstantBuffersFromShader \in m_flags
    /\ \A dev \in DeviceOutcomes :
          LET b == BeginConstantUpdate(Self, dev).p
              q == PrepareResourcesForUse(Self, dev).p
          IN /\ ~b.crashed =>
                   RegionOpen(b) =
                      (RegionOpen(Self) \/ eFlags_ReflectConstantBuffersFromShader \in m_flags)
             /\ ~RegionOpen(q)
             /\ RegionOpen(Self) =>
                   /\ CallsOf(q.calls, "EndNamedConstantUpdate") =
                          <<<<"EndNamedConstantUpdate">>>>
                   /\ ~q.m_bPendingConstantUpdate
    /\ RegionOpen(Dispatch(Self)) = RegionOpen(Self)
    /\ \A schedulerActive \in BOOLEAN :
          RegionOpen(Execute(Self, schedulerActive)) = RegionOpen(Self)
    /\ ~RegionOpen(Reset(Self))

\* Between two calls the region is open over the shader's reflected buffers.
C20_Witness ==
    /\ RegionOpen(Self)
    /\ Len(m_constantManager.buffers) = 2
    /\ m_dirtyMask = eDirty_None

(***************************************************************************)
(* C21.  BeginRenderPass and EndRenderPass may be called concurrently by   *)
(* several worker threads on one pass.  Under every interleaving of the    *)
(* workers' brackets no update is lost: the pass's profiling counter is    *)
(* what the brackets merged so far recorded, one dispatch each for a clean *)
(* pass and none for a dirty one; and a step of a worker writes no field   *)
(* of the pass but that counter, which it never lowers.                    *)
(***************************************************************************)
\* The brackets whose statistics have been merged.
MergedBrackets ==
    {b \in Workers \X (1..MaxSections) : b[2] > workers[b[1]].todo}

DispatchesPerBracket == IF m_dirtyMask = eDirty_None THEN 1 ELSE 0

WithoutStats(p) == [p EXCEPT !.m_profilingStats = 0]

ExactlyOne(x, y, z) == (x /\ ~y /\ ~z) \/ (~x /\ y /\ ~z) \/ (~x /\ ~y /\ z)

\* a comes before b: by slot type, and by layout slot within a slot type.
TypeThenSlot(a, b) ==
    \/ a.slotType < b.slotType
    \/ a.slotType = b.slotType /\ a.layoutSlot < b.layoutSlot

C23_BindPointOrder ==
    /\ \A a, b \in LayoutBindPoints :
          /\ ExactlyOne(LayoutBindPointLess(a, b), LayoutBindPointLess(b, a),
                        LayoutBindPointEqual(a, b))
          /\ LayoutBindPointLess(a, b) = TypeThenSlot(a, b)
          /\ LayoutBindPointEqual(a, b) = (a = b)
          /\ ~LayoutBindPointLess(a, a)
          /\ \A c \in LayoutBindPoints :
                LayoutBindPointLess(a, b) /\ LayoutBindPointLess(b, c) =>
                    LayoutBindPointLess(a, c)
    /\ \A i, j \in 1..Len(layoutKeys) : i < j => TypeThenSlot(layoutKeys[i], layoutKeys[j])
    /\ \A bindPoint \in LayoutBindPoints :
          LET keys == MapInsert(layoutKeys, bindPoint)
          IN /\ \E i \in 1..Len(keys) : keys[i] = bindPoint
             /\ \A i \in 1..Len(layoutKeys) : \E j \in 1..Len(keys) : keys[j] = layoutKeys[i]
             /\ Len(keys) = Len(layoutKeys) +
                   (IF \E i \in 1..Len(layoutKeys) : layoutKeys[i] = bindPoint THEN 0 ELSE 1)

\* A map with bind points of both slot types, several of one type.
C23_Witness ==
    /\ Len(layoutKeys) >= 4
    /\ layoutKeys[1].slotType # layoutKeys[Len(layoutKeys)].slotType
    /\ layoutKeys[1].slotType = layoutKeys[2].slotType

(***************************************************************************)
(* C24.  m_bCompiled tells whether the most recent Compile() since the     *)
(* construction or the last Reset() succeeded fully.  It is false in a new *)
(* pass and after Reset; after Compile, called on its own or from          *)
(* BeginConstantUpdate or PrepareResourcesForUse, it is true exactly when  *)
(* Compile returned None, which it does only when every step its dirty     *)
(* bits implicate succeeded; and the flag changes in no step that is       *)
(* neither a Compile nor a Reset.                                          *)
(***************************************************************************)
\* The bits Compile works from: m_dirtyMask, and Resources when resources were invalidated.
CompileMask(p) ==
    p.m_dirtyMask \cup (IF p.m_bResourcesInvalidated THEN {eDirty_Resources} ELSE eDirty_None)

\* Every step of Compile that the bits of pass p implicate succeeds on device outcome dev.
ImplicatedStepsSucceed(p, dev) ==
    /\ eDirty_Resources \in CompileMask(p) => dev.updateOk
    /\ CompileMask(p) \cap {eDirty_Technique, eDirty_ResourceLayout} # {} =>
          dev.layoutOk /\ dev.pso = "valid"

\* The flag after an operation that ran Compile if ret is <<r>>, and did not if ret is <<>>.
FlagFollowsCompile(r) ==
    r.p.m_bCompiled = IF r.ret = <<>> THEN m_bCompiled ELSE r.ret[1] = eDirty_None

\* This step ran Compile, on its own or within an operation, or is a Reset.
CompileOrResetStep ==
    \/ Commit(Reset(Self))
    \/ \E dev \in DeviceOutcomes :
          \/ Commit(Compile(Self, dev).p)
          \/ BeginConstantUpdate(Self, dev).ret # <<>> /\ Commit(BeginConstantUpdate(Self, dev).p)
          \/ PrepareResourcesForUse(Self, dev).ret # <<>> /\
                Commit(PrepareResourcesForUse(Self, dev).p)

C24_CompiledFlag ==
    /\ [](/\ \A flags \in PassFlags : ~NewPass(flags).m_bCompiled
          /\ ~Reset(Self).m_bCompiled
          /\ \A dev \in DeviceOutcomes :
                LET c == Compile(Self, dev)
                IN /\ c.p.m_bCompiled = (c.ret = eDirty_None)
                   /\ c.p.m_bCompiled = (~c.p.crashed /\ ImplicatedStepsSucceed(Self, dev))
                   /\ FlagFollowsCompile(BeginConstantUpdate(Self, dev))
                   /\ FlagFollowsCompile(PrepareResourcesForUse(Self, dev)))
    /\ [][m_bCompiled' # m_bCompiled => CompileOrResetStep]_vars

\* A pass that compiled and was modified since: the next Compile has steps to run,
\* and clears the flag if one of them fails.
C24_Witness ==
    /\ m_bCompiled
    /\ eDirty_Technique \in m_dirtyMask
    /\ m_pResourceSet # nullptr
    /\ m_pPipelineState # nullptr

(***************************************************************************)
(* C25.  In every reachable state in which the dirty mask is None the pass *)
(* holds a resource set, a resource layout and a pipeline state, none of   *)
(* them null, and the pipeline state is valid: what Dispatch binds.        *)
(***************************************************************************)
\* The three artifacts Dispatch binds are there, and the pipeline state is valid.
HoldsArtifacts(p) ==
    /\ p.m_pResourceSet # nullptr
    /\ p.m_pResourceLayout # nullptr
    /\ p.m_pPipelineState # nullptr
    /\ Deref(p.m_pPipelineState).valid

PrepareAssertion(p) ==
    p.m_bPendingConstantUpdate /\ p.m_bCompiled => ~IsDirty(p)

C26_PrepareAssertionHolds == Idle => PrepareAssertion(Self)

(***************************************************************************)
(* C27.  Named-constant updates are bracketed: m_bPendingConstantUpdate is *)
(* true exactly when a BeginNamedConstantUpdate issued by                  *)
(* BeginConstantUpdate has not been ended yet, and PrepareResourcesForUse  *)
(* issues EndNamedConstantUpdate only when there is such a Begin, in every *)
(* reachable state, those after a Reset included.                          *)
(***************************************************************************)
C27_UpdatesBracketed ==
    /\ m_bPendingConstantUpdate = RegionOpen(Self)
    /\ \A dev \in DeviceOutcomes :
          Called(PrepareResourcesForUse(Self, dev).p.calls, "EndNamedConstantUpdate") =>
              RegionOpen(Self)

(***************************************************************************)
(* C28.  Compile never calls Update on a released resource set: in every   *)
(* reachable state in which Compile can be called and would run its        *)
(* resource-set step, after a Reset too, m_pResourceSet is not null, and   *)
(* the call does not end in undefined behaviour.                           *)
(***************************************************************************)
C28_CompileUpdatesLiveSet ==
    Idle /\ eDirty_Resources \in CompileMask(Self) =>
        /\ m_pResourceSet # nullptr
        /\ \A dev \in DeviceOutcomes : ~Compile(Self, dev).p.crashed

=============================================================================
